---- MODULE Spec2Model ----
(***************************************************************************)
(* Model of src/minesweeper.py: the knowledge-based Minesweeper agent      *)
(* (classes Sentence and MinesweeperAI) playing against one hidden board   *)
(* (class Minesweeper).                                                    *)
(*                                                                         *)
(* A Sentence object is a record [cells, count]; self.knowledge is a       *)
(* sequence of such records, and a reference to a Sentence object held by  *)
(* a local variable of the code (sentence, nextSentence, leftover, the     *)
(* entries of empty_sets) is the position of that object in                *)
(* self.knowledge, which does not change while infer_multiple_sentences    *)
(* iterates.  One step of the model is one call of MinesweeperAI.mark_safe *)
(* or MinesweeperAI.mark_mine made by add_knowledge, or the straight-line  *)
(* code between two such calls, so that the states in the middle of a      *)
(* propagation pass are states of the model.                               *)
(***************************************************************************)
EXTENDS Integers, Sequences, FiniteSets

\* ----------------------------------------------------------------- bounds
MaxMines == 2
MaxMoves == 4
MaxPasses == 6

\* Largest board (in cells) explored with a caller whose counts may be wrong.
MaxUncheckedCells == 4

\* ------------------------------------------------------------------ state
\* MinesweeperAI(height, width) and Minesweeper(height, width, mines) are
\* constructed for one of these grids.
Grids == (1 .. 3) \X (1 .. 3)

VARIABLES
  height,             \* MinesweeperAI.height (and Minesweeper.height)
  width,              \* MinesweeperAI.width (and Minesweeper.width)
  board,              \* Minesweeper.mines: the cells of the hidden board that hold a mine
  moves_made,         \* MinesweeperAI.moves_made
  mines,              \* MinesweeperAI.mines
  safes,              \* MinesweeperAI.safes
  knowledge,          \* MinesweeperAI.knowledge: sequence of [cells, count]
  pending_cells,      \* MinesweeperAI.pending_cells
  pc,                 \* where the running add_knowledge call stands ("idle": no call)
  todo,               \* the cells the running for-loop over cells has still to mark
  marking,            \* "safe" or "mine": which of mark_safe / mark_mine that loop calls
  sentence,           \* infer_multiple_sentences: position of `sentence` in knowledge
  nextSentence,       \* infer_multiple_sentences: position of `nextSentence` (0: before the inner loop)
  leftover,           \* infer_multiple_sentences: position of `leftover`
  empty_sets,         \* infer_multiple_sentences: positions of the sentences queued for removal
  newSelf_knowledge,  \* infer_multiple_sentences: the sentences derived in this pass
  count,              \* add_knowledge: the pass counter of its while loop (line 312)
  obs,                \* the running (or last) add_knowledge call: its arguments and the
                      \* agent's sets when its own sentence was built
  lastOp,             \* the operation the last step belonged to
  touched,            \* how many sentences the last mark_safe / mark_mine call reduced
  ret                 \* what the last make_safe_move / make_random_move returned

vars == <<height, width, board, moves_made, mines, safes, knowledge, pending_cells, pc, todo, marking,
          sentence, nextSentence, leftover, empty_sets, newSelf_knowledge, count, obs,
          lastOp, touched, ret>>

agent == <<moves_made, mines, safes, knowledge, pending_cells>>

locals == <<sentence, nextSentence, leftover, empty_sets, newSelf_knowledge>>

\* ------------------------------------------------------------------ cells
Cells == (0 .. height - 1) \X (0 .. width - 1)

None == << >>

\* Position of a cell in the row-major order in which the code's nested
\* range() loops enumerate the grid.
Rank(cell) == cell[1] * width + cell[2]

abs_missing(n) == n

abs(n) == IF n < 0 THEN -n ELSE n

\* Minesweeper.nearby_mines
nearby_mines(cell) ==
  Cardinality({c \in board :
                 /\ c # cell
                 /\ c[1] \in (cell[1] - 1) .. (cell[1] + 1)
                 /\ c[2] \in (cell[2] - 1) .. (cell[2] + 1)})

\* MinesweeperAI.nearby_cells (the list, as the set of its elements; the list
\* is in row-major order, see Rank)
nearby_cells(cell) ==
  {c \in Cells :
     /\ c # cell
     /\ c[1] \in (cell[1] - 1) .. (cell[1] + 1)
     /\ c[2] \in (cell[2] - 1) .. (cell[2] + 1)}

\* -------------------------------------------------------------- Sentence
Sentence(cells, cnt) == [cells |-> cells, count |-> cnt]

known_mines(s) == IF s.count = Cardinality(s.cells) THEN s.cells ELSE {}

known_safes(s) == IF s.count = 0 THEN s.cells ELSE {}

Sentence_mark_mine_nodecrement(s, cell) ==
  IF cell \in s.cells THEN [cells |-> s.cells \ {cell}, count |-> s.count] ELSE s

Sentence_mark_mine_unguarded(s, cell) ==
  [cells |-> s.cells \ {cell}, count |-> s.count - 1]

Sentence_mark_mine(s, cell) ==
  IF cell \in s.cells THEN [cells |-> s.cells \ {cell}, count |-> s.count - 1] ELSE s

Sentence_mark_safe(s, cell) ==
  IF cell \in s.cells THEN [cells |-> s.cells \ {cell}, count |-> s.count] ELSE s

\* --------------------------------------------------------- MinesweeperAI
\* The loops of MinesweeperAI.mark_mine / mark_safe over self.knowledge.
knowledge_mark_mine(kn, cell) == [k \in DOMAIN kn |-> Sentence_mark_mine(kn[k], cell)]

knowledge_mark_safe(kn, cell) == [k \in DOMAIN kn |-> Sentence_mark_safe(kn[k], cell)]

set_add_replaces(set, cell) == {cell}

\* self.mines.add(cell) / self.safes.add(cell)
set_add(set, cell) == set \cup {cell}

\* `x in list`, list.count(x): by Sentence.__eq__
Contains(seq, s) == \E k \in DOMAIN seq : seq[k] = s

Occurrences(seq, s) == Cardinality({k \in DOMAIN seq : seq[k] = s})

\* list.remove(x): drops the first element equal to x
RECURSIVE RemoveFirst(_, _)
RemoveFirst(seq, s) ==
  IF seq = << >> THEN << >>
  ELSE IF Head(seq) = s THEN Tail(seq)
  ELSE << Head(seq) >> \o RemoveFirst(Tail(seq), s)

\* `for sent in empty_sets: self.knowledge.remove(sent)` (lines 264-265); vals
\* are the queued sentences, which no longer change
RECURSIVE RemoveEach(_, _)
RemoveEach(seq, vals) ==
  IF vals = << >> THEN seq
  ELSE RemoveEach(RemoveFirst(seq, Head(vals)), Tail(vals))

\* MinesweeperAI.removing_duplicates, the loop of lines 217-222 from position k
\* on, seen many equal sentences so far.  `item` is the object at position
\* item, so once that object is blanked the comparisons are against the blank.
RECURSIVE removing_duplicates_loop(_, _, _, _)
removing_duplicates_loop(kn, item, k, seen) ==
  IF k > Len(kn) THEN kn
  ELSE IF kn[item] = kn[k]
       THEN IF seen + 1 > 1
            THEN removing_duplicates_loop([kn EXCEPT ![k] = Sentence({}, 0)], item, k + 1, seen + 1)
            ELSE removing_duplicates_loop(kn, item, k + 1, seen + 1)
       ELSE removing_duplicates_loop(kn, item, k + 1, seen)

removing_duplicates(kn, item) ==
  IF Occurrences(kn, kn[item]) > 1 THEN removing_duplicates_loop(kn, item, 1, 0) ELSE kn


\* ------------------------------------------------ infer_multiple_sentences
\* Where the scan of infer_multiple_sentences stops next.
Stop(kind, i, j, lo, es, nk, cells, mark) ==
  [stop |-> kind, sentence |-> i, nextSentence |-> j, leftover |-> lo,
   empty_sets |-> es, newSelf_knowledge |-> nk, todo |-> cells, marking |-> mark]

\* The nested loops of infer_multiple_sentences (lines 227-262) from the
\* outer position i and the inner position j (0: the top of the outer loop
\* body) up to the next call of mark_safe / mark_mine or to the end of the
\* outer loop.  Until then self.knowledge does not change; only empty_sets
\* (es) and newSelf_knowledge (nk) grow.
RECURSIVE Scan(_, _, _, _)
Scan(i, j, es, nk) ==
  IF i > Len(knowledge) THEN Stop("end", i, j, 0, es, nk, {}, "safe")
  ELSE IF j = 0
  THEN LET s == knowledge[i] IN
       IF Cardinality(s.cells) = 0
       THEN Scan(i + 1, 0, Append(es, i), nk)
       ELSE IF s.count = 0 \/ Cardinality(s.cells) = s.count
       THEN IF known_safes(s) # {}
            THEN Stop("mark_sentence", i, 0, 0, es, nk, known_safes(s), "safe")
            ELSE Stop("mark_sentence", i, 0, 0, es, nk, known_mines(s), "mine")
       ELSE Scan(i, 1, es, nk)
  ELSE IF j > Len(knowledge) THEN Scan(i + 1, 0, es, nk)
  ELSE LET s == knowledge[i]
           nx == knowledge[j]
           sub == s.cells \subseteq nx.cells
           newCells == IF sub THEN nx.cells \ s.cells ELSE s.cells \ nx.cells
           lo == IF sub THEN i ELSE j
           newCount == abs(nx.count - s.count)
           newSentence == Sentence(newCells, newCount)
       IN
       IF s = nx THEN Scan(i, j + 1, es, nk)
       ELSE IF ~(s.cells \subseteq nx.cells \/ nx.cells \subseteq s.cells)
       THEN Scan(i, j + 1, es, nk)
       ELSE IF Cardinality(newCells) = 0 THEN Scan(i, j + 1, es, nk)
       ELSE IF Cardinality(newCells) = newCount \/ newCount = 0
       THEN IF known_safes(newSentence) # {}
            THEN Stop("mark_new", i, j, lo, es, nk, known_safes(newSentence), "safe")
            ELSE Stop("mark_new", i, j, lo, es, nk, known_mines(newSentence), "mine")
       ELSE IF Contains(knowledge, newSentence) \/ Contains(nk, newSentence)
       THEN Scan(i, j + 1, es, nk)
       ELSE Scan(i, j + 1, es, Append(nk, newSentence))

\* ----------------------------------------------------------------- steps
Init ==
  /\ \E g \in Grids :
        /\ height = g[1]
        /\ width = g[2]
        /\ board \in {b \in SUBSET ((0 .. g[1] - 1) \X (0 .. g[2] - 1)) :
                          Cardinality(b) <= MaxMines}
        /\ pending_cells = g[1] * g[2]
  /\ moves_made = {}
  /\ mines = {}
  /\ safes = {}
  /\ knowledge = << >>
  /\ pc = "idle"
  /\ todo = {}
  /\ marking = "safe"
  /\ sentence = 0
  /\ nextSentence = 0
  /\ leftover = 0
  /\ empty_sets = << >>
  /\ newSelf_knowledge = << >>
  /\ count = 0
  /\ obs = [cell |-> None, count |-> 0, mines |-> {}, safes |-> {}, moves_made |-> {}]
  /\ lastOp = "init"
  /\ touched = 0
  /\ ret = None

\* add_knowledge reaches its while loop (lines 312-316): the first pass of
\* infer_multiple_sentences starts.
EnterLoop ==
  /\ pc' = "scan"
  /\ todo' = {}
  /\ marking' = "safe"
  /\ sentence' = 1
  /\ nextSentence' = 0
  /\ leftover' = 0
  /\ empty_sets' = << >>
  /\ newSelf_knowledge' = << >>
  /\ count' = 1

\* add_knowledge enters one of its marking loops (lines 295-296, 298-299).
EnterMarking(cells, mark) ==
  /\ pc' = "mark_ak"
  /\ todo' = cells
  /\ marking' = mark
  /\ UNCHANGED <<locals, count>>

pending_cells_unchanged(n) == n

\* self.pending_cells -= 1 (line 288)
pending_cells_decrement(n) == n - 1

\* add_knowledge(cell, cnt), lines 285-310: the move is recorded, the cell is
\* marked safe, and either a marking loop over the neighbours starts or the
\* call's own sentence is built and appended.
AddKnowledge(cell, cnt) ==
  /\ pc = "idle"
  /\ Cardinality(moves_made) < MaxMoves
  /\ LET neigh_cells == nearby_cells(cell)
         kn == knowledge_mark_safe(knowledge, cell)
         moves1 == set_add(moves_made, cell)
         safes1 == set_add(safes, cell)
         neigh_set == {n \in neigh_cells : n \notin mines /\ n \notin moves1 /\ n \notin safes1}
         neigh_count == cnt - Cardinality({n \in neigh_cells : n \in mines})
         newSentence == Sentence(neigh_set, neigh_count)
     IN
     /\ moves_made' = moves1
     /\ safes' = safes1
     /\ pending_cells' = pending_cells_decrement(pending_cells)
     /\ mines' = mines
     /\ UNCHANGED <<height, width, board>>
     /\ obs' = [cell |-> cell, count |-> cnt, mines |-> mines, safes |-> safes1,
                moves_made |-> moves1]
     /\ lastOp' = "add_knowledge"
     /\ touched' = Cardinality({k \in DOMAIN knowledge : cell \in knowledge[k].cells})
     /\ ret' = None
     /\ IF cnt = 0
        THEN /\ knowledge' = kn
             /\ IF neigh_cells = {} THEN EnterLoop ELSE EnterMarking(neigh_cells, "safe")
        ELSE IF Cardinality(neigh_cells) = cnt
        THEN /\ knowledge' = kn
             /\ EnterMarking(neigh_cells, "mine")
        ELSE /\ knowledge' = IF Contains(kn, newSentence) THEN kn ELSE Append(kn, newSentence)
             /\ EnterLoop

\* The board tells the agent about a cell that holds no mine and was not
\* probed before.
Observe ==
  \E cell \in Cells \ board :
     /\ cell \notin moves_made
     /\ AddKnowledge(cell, nearby_mines(cell))

\* The cell the running loop marks next: add_knowledge iterates the list
\* neigh_cells in its order, the loops of infer_multiple_sentences iterate a
\* set.
IsNext(c) ==
  /\ c \in todo
  /\ pc = "mark_ak" => \A d \in todo : Rank(c) <= Rank(d)

\* What follows the last call of a marking loop, up to the next stop.
AfterMarking(kn) ==
  IF pc = "mark_ak"
  THEN /\ knowledge' = kn
       /\ EnterLoop
  ELSE IF pc = "mark_sentence"
  THEN IF marking = "safe" /\ known_mines(kn[sentence]) # {}
       THEN /\ knowledge' = kn
            /\ pc' = pc
            /\ todo' = known_mines(kn[sentence])
            /\ marking' = "mine"
            /\ UNCHANGED <<locals, count>>
       ELSE /\ knowledge' = kn
            /\ pc' = "scan"
            /\ todo' = {}
            /\ marking' = "safe"
            /\ nextSentence' = 1
            /\ empty_sets' = Append(empty_sets, sentence)
            /\ UNCHANGED <<sentence, leftover, newSelf_knowledge, count>>
  ELSE /\ knowledge' = removing_duplicates(kn, leftover)
       /\ pc' = "scan"
       /\ todo' = {}
       /\ marking' = "safe"
       /\ nextSentence' = nextSentence + 1
       /\ leftover' = 0
       /\ UNCHANGED <<sentence, empty_sets, newSelf_knowledge, count>>

\* One call self.mark_safe(c) or self.mark_mine(c) of a marking loop.
Mark(c, kn) ==
  /\ lastOp' = IF marking = "safe" THEN "mark_safe" ELSE "mark_mine"
  /\ touched' = Cardinality({k \in DOMAIN knowledge : c \in knowledge[k].cells})
  /\ UNCHANGED <<height, width, board, moves_made, pending_cells, obs, ret>>
  /\ IF todo = {c}
     THEN AfterMarking(kn)
     ELSE /\ knowledge' = kn
          /\ todo' = todo \ {c}
          /\ UNCHANGED <<pc, marking, locals, count>>

\* MinesweeperAI.mark_safe, called from add_knowledge or infer_multiple_sentences
MarkSafe ==
  /\ pc \in {"mark_ak", "mark_sentence", "mark_new"}
  /\ marking = "safe"
  /\ \E c \in todo :
        /\ IsNext(c)
        /\ safes' = set_add(safes, c)
        /\ mines' = mines
        /\ Mark(c, knowledge_mark_safe(knowledge, c))

\* MinesweeperAI.mark_mine, called from add_knowledge or infer_multiple_sentences
MarkMine ==
  /\ pc \in {"mark_ak", "mark_sentence", "mark_new"}
  /\ marking = "mine"
  /\ \E c \in todo :
        /\ IsNext(c)
        /\ mines' = set_add(mines, c)
        /\ safes' = safes
        /\ Mark(c, knowledge_mark_mine(knowledge, c))

LoopContinues_always(nk) == TRUE

\* `if len(newSelf_knowledge):` (line 317)
LoopContinues(nk) == Len(nk) > 0

\* infer_multiple_sentences runs on from where it stands: to its next
\* marking loop, or to its end (lines 264-267), where the queued sentences are
\* removed and add_knowledge either appends the derived sentences and starts
\* another pass or returns (lines 317-322).
Infer ==
  /\ pc = "scan"
  /\ \E r \in {Scan(sentence, nextSentence, empty_sets, newSelf_knowledge)} :
     LET vals == [k \in 1 .. Len(r.empty_sets) |-> knowledge[r.empty_sets[k]]]
         kn == RemoveEach(knowledge, vals)
     IN
     IF r.stop = "end"
     THEN IF LoopContinues(r.newSelf_knowledge)
          THEN /\ count < MaxPasses
               /\ knowledge' = kn \o r.newSelf_knowledge
               /\ pc' = "scan"
               /\ sentence' = 1
               /\ nextSentence' = 0
               /\ count' = count + 1
               /\ UNCHANGED <<todo, marking, leftover>>
               /\ empty_sets' = << >>
               /\ newSelf_knowledge' = << >>
          ELSE /\ knowledge' = kn
               /\ pc' = "idle"
               /\ sentence' = 0
               /\ nextSentence' = 0
               /\ empty_sets' = << >>
               /\ newSelf_knowledge' = << >>
               /\ UNCHANGED <<todo, marking, leftover, count>>
     ELSE /\ pc' = r.stop
          /\ todo' = r.todo
          /\ marking' = r.marking
          /\ sentence' = r.sentence
          /\ nextSentence' = r.nextSentence
          /\ leftover' = r.leftover
          /\ empty_sets' = r.empty_sets
          /\ newSelf_knowledge' = r.newSelf_knowledge
          /\ UNCHANGED <<knowledge, count>>
  /\ lastOp' = "infer_multiple_sentences"
  /\ touched' = 0
  /\ UNCHANGED <<height, width, board, moves_made, mines, safes, pending_cells, obs, ret>>

MakeSafeMove_records ==
  /\ pc = "idle"
  /\ \E move \in safes \ moves_made :
        /\ move \notin mines /\ move \notin moves_made
        /\ ret' = move
        /\ moves_made' = moves_made \cup {move}
  /\ lastOp' = "make_safe_move"
  /\ touched' = 0
  /\ UNCHANGED <<height, width, board, mines, safes, knowledge, pending_cells, pc, todo, marking, locals,
                 count, obs>>

MakeSafeMove_swapped ==
  /\ pc = "idle"
  /\ LET passing == {move \in moves_made \ safes : move \notin mines /\ move \notin moves_made}
     IN \/ \E move \in passing : ret' = move
        \/ passing = {} /\ ret' = None
  /\ lastOp' = "make_safe_move"
  /\ touched' = 0
  /\ UNCHANGED <<height, width, board, agent, pc, todo, marking, locals, count, obs>>

\* make_safe_move: the first cell of safes.difference(moves_made), in the
\* set's order, that passes the test of line 336; None when none does.
MakeSafeMove ==
  /\ pc = "idle"
  /\ LET passing == {move \in safes \ moves_made : move \notin mines /\ move \notin moves_made}
     IN \/ \E move \in passing : ret' = move
        \/ passing = {} /\ ret' = None
  /\ lastOp' = "make_safe_move"
  /\ touched' = 0
  /\ UNCHANGED <<height, width, board, agent, pc, todo, marking, locals, count, obs>>

MakeRandomMove_unfiltered ==
  /\ pc = "idle"
  /\ IF pending_cells - Cardinality(mines) > 0
     THEN \E move \in Cells : move \notin moves_made /\ ret' = move
     ELSE ret' = None
  /\ lastOp' = "make_random_move"
  /\ touched' = 0
  /\ UNCHANGED <<height, width, board, agent, pc, todo, marking, locals, count, obs>>

\* make_random_move: while pending_cells - len(mines) > 0 a cell is drawn and
\* returned if it passes the test of line 354; the call returns once a drawn
\* cell passes, so with the counter positive and no passing cell it never
\* returns (the step is not enabled).
MakeRandomMove ==
  /\ pc = "idle"
  /\ IF pending_cells - Cardinality(mines) > 0
     THEN \E move \in Cells :
             /\ move \notin mines /\ move \notin moves_made
             /\ ret' = move
     ELSE ret' = None
  /\ lastOp' = "make_random_move"
  /\ touched' = 0
  /\ UNCHANGED <<height, width, board, agent, pc, todo, marking, locals, count, obs>>

Next ==
  \/ Observe
  \/ MarkSafe
  \/ MarkMine
  \/ Infer
  \/ MakeSafeMove
  \/ MakeRandomMove

Spec == Init /\ [][Next]_vars

\* The code is sequential: a running add_knowledge call takes its next step.
Running == MarkSafe \/ MarkMine \/ Infer

\* The add_knowledge calls alone, run to their end: make_safe_move and
\* make_random_move change nothing that add_knowledge reads.
NextKnowledge ==
  \/ Observe
  \/ MarkSafe
  \/ MarkMine
  \/ Infer

FairSpec == Init /\ [][NextKnowledge]_vars /\ WF_vars(Running)

\* add_knowledge called with a count that is not the number of mines around
\* the cell: the caller, not the agent, computes the count (line 270).
ObserveWrong ==
  \E cell \in Cells \ board :
     \E cnt \in 0 .. Cardinality(nearby_cells(cell)) :
        /\ cell \notin moves_made
        /\ cnt # nearby_mines(cell)
        /\ AddKnowledge(cell, cnt)

NextUnchecked ==
  \/ Observe
  \/ ObserveWrong
  \/ MarkSafe
  \/ MarkMine
  \/ Infer

UncheckedInit == Init /\ height * width <= MaxUncheckedCells

\* The agent fed by a caller whose counts may be wrong.
UncheckedSpec == UncheckedInit /\ [][NextUnchecked]_vars

\* ---------------------------------------------------------------- claims
\* add_knowledge has returned (and no call is running).
Returned == pc = "idle" /\ obs.cell # None

\* The cells make_random_move may return: in neither moves_made nor mines.
Candidates == {c \in Cells : c \notin moves_made /\ c \notin mines}

\* C1: under observations consistent with the hidden board, no cell is in
\* both mines and safes.
C1_MinesSafesDisjoint == mines \cap safes = {}

C1_Witness ==
  /\ Returned
  /\ Cardinality(moves_made) >= 2
  /\ mines # {}
  /\ safes \ moves_made # {}

\* C2: every sentence of knowledge has 0 <= count <= |cells| after every
\* reduction step of the propagation and when add_knowledge returns;
\* Sentence.mark_mine never drives a count below 0.
C2_CountInRange ==
  \A k \in DOMAIN knowledge :
     /\ 0 <= knowledge[k].count
     /\ knowledge[k].count <= Cardinality(knowledge[k].cells)

C2_Witness ==
  /\ lastOp = "mark_mine"
  /\ touched >= 1
  /\ \E k \in DOMAIN knowledge : knowledge[k].cells # {} /\ knowledge[k].count = 0

\* C3: when add_knowledge returns, no cell of moves_made, mines or safes
\* appears in the cell set of a sentence of knowledge.
C3_KnowledgeReduced ==
  Returned =>
    \A k \in DOMAIN knowledge :
       knowledge[k].cells \cap (moves_made \cup mines \cup safes) = {}

\* C4: the while loop of add_knowledge eventually sees a pass that derives
\* no new sentence, so every add_knowledge call returns.
C4_AddKnowledgeReturns == (pc # "idle") ~> (pc = "idle")

C4_Witness ==
  /\ Returned
  /\ lastOp = "infer_multiple_sentences"
  /\ count >= 3

\* C5: make_safe_move and make_random_move never return a cell that is in
\* moves_made or in mines.
C5_MovesAvoidKnown ==
  (lastOp \in {"make_safe_move", "make_random_move"} /\ ret # None) =>
    (ret \notin moves_made /\ ret \notin mines)

C5_Witness ==
  /\ lastOp = "make_random_move"
  /\ ret # None
  /\ mines # {}
  /\ moves_made # {}

\* C6: the counter pending_cells - |mines| is positive exactly when a grid
\* cell lies outside moves_made and mines, and make_random_move returns None
\* exactly when there is no such cell.
C6_RandomMoveNoneIffExhausted ==
  pc = "idle" =>
    /\ (pending_cells - Cardinality(mines) > 0) <=> (Candidates # {})
    /\ lastOp = "make_random_move" => ((ret = None) <=> (Candidates = {}))

C6_Witness ==
  /\ lastOp = "make_random_move"
  /\ ret = None
  /\ mines # {}
  /\ Candidates = {}

\* C7: when add_knowledge returns, knowledge holds no two equal sentences
\* with a non-empty cell set.
C7_NoDuplicates ==
  Returned =>
    \A a, b \in DOMAIN knowledge :
       (a # b /\ knowledge[a].cells # {}) => knowledge[a] # knowledge[b]

\* C8: when add_knowledge(cell, count) returns: if count less the neighbours
\* already known as mines is 0, every neighbour that was not a known mine is
\* in safes; if it equals the number of neighbours that were in none of
\* mines, safes and moves_made, all of those are in mines.
C8_ForcedObservationHarvested ==
  Returned =>
    LET neigh == nearby_cells(obs.cell)
        remaining == {n \in neigh : n \notin obs.mines /\ n \notin obs.safes
                                      /\ n \notin obs.moves_made}
        reduced == obs.count - Cardinality(neigh \cap obs.mines)
    IN /\ reduced = 0 => (neigh \ obs.mines) \subseteq safes
       /\ reduced = Cardinality(remaining) => remaining \subseteq mines

\* C9: moves_made, mines and safes only grow, across every call.
C9_SetsOnlyGrow ==
  [][/\ moves_made \subseteq moves_made'
     /\ mines \subseteq mines'
     /\ safes \subseteq safes']_vars

C9_Witness ==
  /\ lastOp = "mark_mine"
  /\ Cardinality(mines) >= 2
  /\ Cardinality(safes) >= 2
  /\ Cardinality(moves_made) >= 2

\* C10: make_safe_move and make_random_move leave moves_made, mines, safes,
\* knowledge and pending_cells as they were.
C10_MovesArePure ==
  [][lastOp' \in {"make_safe_move", "make_random_move"} => UNCHANGED agent]_vars

C10_Witness ==
  /\ lastOp = "make_safe_move"
  /\ ret # None
  /\ knowledge # << >>
  /\ mines # {}

\* C11: make_safe_move returns a cell whenever safes \ moves_made is not
\* empty, and None only when it is empty.
C11_SafeMoveFound ==
  lastOp = "make_safe_move" => ((ret = None) <=> (safes \ moves_made = {}))

C11_Witness ==
  /\ lastOp = "make_safe_move"
  /\ ret # None
  /\ ret \in safes \ moves_made
  /\ mines # {}

\* C13: when add_knowledge returns, knowledge holds no sentence with a
\* non-empty cell set whose count is 0 or the size of its cell set.
C13_NoForcedSentenceLeft ==
  Returned =>
    \A k \in DOMAIN knowledge :
       knowledge[k].cells # {} =>
         /\ knowledge[k].count # 0
         /\ knowledge[k].count # Cardinality(knowledge[k].cells)

\* C14: when add_knowledge returns, knowledge is closed under subset
\* resolution: for sentences A, B with non-empty cells and A.cells a proper
\* subset of B.cells, the difference sentence is in knowledge, or it is all
\* safe and its cells are in safes, or all mines and its cells are in mines.
C14_ClosedUnderResolution ==
  Returned =>
    \A a, b \in DOMAIN knowledge :
       LET A == knowledge[a]
           B == knowledge[b]
           diff == B.cells \ A.cells
           n == B.count - A.count
       IN (A.cells # {} /\ A.cells \subseteq B.cells /\ A.cells # B.cells) =>
             \/ Contains(knowledge, Sentence(diff, n))
             \/ n = 0 /\ diff \subseteq safes
             \/ n = Cardinality(diff) /\ diff \subseteq mines

\* C15: when add_knowledge returns, knowledge holds no sentence with an
\* empty cell set.
C15_NoEmptySentenceLeft ==
  Returned => \A k \in DOMAIN knowledge : knowledge[k].cells # {}

\* C17: soundness, in every state (also inside a propagation pass): no cell
\* of safes holds a mine of the board, every cell of mines does, and the
\* count of every sentence of knowledge is the number of its cells that hold
\* a mine.
C17_Sound ==
  /\ safes \cap board = {}
  /\ mines \subseteq board
  /\ \A k \in DOMAIN knowledge :
        knowledge[k].count = Cardinality(knowledge[k].cells \cap board)

C17_Witness ==
  /\ pc = "mark_new"
  /\ lastOp = "mark_mine"
  /\ touched >= 1
  /\ safes \ moves_made # {}
  /\ \E k \in DOMAIN knowledge : knowledge[k].cells # {}

\* C16: a call of MinesweeperAI.mark_mine(c) adds c to mines and, in every
\* sentence that contains c, removes c and lowers the count by exactly 1;
\* a call of MinesweeperAI.mark_safe(c) adds c to safes and removes c from
\* every sentence that contains it without changing any count; every other
\* sentence stays as it was. (The last call of the marking loop at lines
\* 258-262 is followed in the same step by removing_duplicates.)
C16_MarkEffect ==
  [][\A op \in {"mark_mine", "mark_safe"} :
       lastOp' = op =>
         \E c \in todo :
            LET delta == IF op = "mark_mine" THEN 1 ELSE 0
                expected == [k \in DOMAIN knowledge |->
                               IF c \in knowledge[k].cells
                               THEN Sentence(knowledge[k].cells \ {c},
                                             knowledge[k].count - delta)
                               ELSE knowledge[k]]
            IN /\ mines' = IF op = "mark_mine" THEN mines \cup {c} ELSE mines
               /\ safes' = IF op = "mark_safe" THEN safes \cup {c} ELSE safes
               /\ knowledge' = IF pc = "mark_new" /\ pc' = "scan"
                               THEN removing_duplicates(expected, leftover)
                               ELSE expected]_vars

C16_Witness ==
  /\ lastOp = "mark_mine"
  /\ touched >= 2
  /\ Len(knowledge) > touched
  /\ \E k \in DOMAIN knowledge : knowledge[k].cells # {} /\ knowledge[k].count >= 1

\* C12: a call of add_knowledge with a count that differs from the number of
\* mines around the cell never returns normally leaving a sentence whose
\* count is outside 0 .. |cells| or a cell that is in both mines and safes.
C12_NoSilentCorruption ==
  (Returned /\ obs.count # nearby_mines(obs.cell)) =>
     /\ mines \cap safes = {}
     /\ \A k \in DOMAIN knowledge :
           /\ knowledge[k].count >= 0
           /\ knowledge[k].count <= Cardinality(knowledge[k].cells)

====
